---- MODULE Spec2Model ----
(***************************************************************************)
(* Model of the cashback-server relay: the four deployment variants        *)
(* (server.mjs, and the three later server files), their route handlers,   *)
(* the model-output parsing pipeline, the link liveness check and the      *)
(* 24h price cache.                                                        *)
(* The rate limiter server.mjs puts in front of two routes is middleware   *)
(* outside the handlers: the requests modelled are those it lets through.  *)
(*                                                                         *)
(* Conventions.                                                            *)
(*  - A short string (a name, a header, a JSON string value) is a sequence *)
(*    of one-character strings.                                            *)
(*  - A JavaScript/JSON value is a record [t, n, s, b]: t is the type tag, *)
(*    n the number (in hundredths: 0.35 is 35, 9.99 is 999), s the string, *)
(*    b the boolean.  t = "undefined" is an absent key or body field.      *)
(*  - The completion text is a sequence of runs [c, n, k, v]: c = "{" or   *)
(*    "}" is one brace, c = "x" is a run of n prose characters, c = "m" is *)
(*    the n characters of one JSON member  "k": v  .                       *)
(*  - Time is milliseconds since process start.                            *)
(***************************************************************************)
EXTENDS Integers, Sequences, FiniteSets, Bags, TLC

VARIABLES
  variant,           \* which server file is deployed
  OPENAI_API_KEY,    \* is process.env.OPENAI_API_KEY set
  GOOGLE_CLIENT_ID,  \* is process.env.GOOGLE_CLIENT_ID set
  clock,             \* Date.now()
  priceCache,        \* the Map priceCache: cacheKey -> [expiresAt, value]
  reqs,              \* the bag of /api/price-suggest requests suspended at their await
  api,               \* the request of another route, suspended at its await
  last,              \* the HTTP response sent last, with what its request did
  lastWrite          \* history: per cacheKey, the request that called set() last

vars == <<variant, OPENAI_API_KEY, GOOGLE_CLIENT_ID, clock, priceCache,
          reqs, api, last, lastWrite>>

----------------------------------------------------------------------------
(* Bounds of the model.                                                    *)

\* number of /api/price-suggest requests that can be in flight together
MaxInFlight == 2
\* the clock advances at most MaxTicks times, half a TTL each time
MaxTicks == 2
\* the helper functions are applied to every string of at most MaxStrLen
\* characters over a small alphabet
MaxStrLen == 3

----------------------------------------------------------------------------
(* JavaScript values.                                                      *)

JUndef == [t |-> "undefined", n |-> 0, s |-> <<>>, b |-> FALSE]
JNull == [t |-> "null", n |-> 0, s |-> <<>>, b |-> FALSE]
JNum(x) == [t |-> "number", n |-> x, s |-> <<>>, b |-> FALSE]
JInf == [t |-> "infinity", n |-> 0, s |-> <<>>, b |-> FALSE]
JStr(x) == [t |-> "string", n |-> 0, s |-> x, b |-> FALSE]
\* a fixed message of the code, kept as one word
JMsg(m) == [t |-> "string", n |-> 0, s |-> <<m>>, b |-> FALSE]
JBool(x) == [t |-> "boolean", n |-> 0, s |-> <<>>, b |-> x]
JObject == [t |-> "object", n |-> 0, s |-> <<>>, b |-> FALSE]
JDate(x) == [t |-> "date", n |-> x, s |-> <<>>, b |-> FALSE]
\* the object JSON.parse builds from {"toString": 1}: s names its own key
JNoToString == [t |-> "object", n |-> 0, s |-> <<"toString">>, b |-> FALSE]

\* typeof v
TypeOf(v) == IF v.t = "infinity" THEN "number"
             ELSE IF v.t = "null" THEN "object" ELSE v.t

\* the truthiness test of  v || d ,  !v ,  v ? a : b
Truthy(v) ==
  CASE v.t = "undefined" -> FALSE
    [] v.t = "null" -> FALSE
    [] v.t = "number" -> v.n # 0
    [] v.t = "string" -> v.s # <<>>
    [] v.t = "boolean" -> v.b
    [] OTHER -> TRUE

\* v ?? d
Nullish(v) == v.t \in {"undefined", "null"}

----------------------------------------------------------------------------
(* Strings.                                                                *)

Upper == <<"A","B","C","D","E","F","G","H","I","J","K","L","M",
           "N","O","P","Q","R","S","T","U","V","W","X","Y","Z">>
Lower == <<"a","b","c","d","e","f","g","h","i","j","k","l","m",
           "n","o","p","q","r","s","t","u","v","w","x","y","z">>
Whitespace == {" ", "\t", "\n"}

LowerChar(c) == IF \E i \in 1..26 : Upper[i] = c
                THEN Lower[CHOOSE i \in 1..26 : Upper[i] = c] ELSE c
UpperChar(c) == IF \E i \in 1..26 : Lower[i] = c
                THEN Upper[CHOOSE i \in 1..26 : Lower[i] = c] ELSE c

\* String.prototype.toLowerCase / toUpperCase
toLowerCase(s) == [i \in 1..Len(s) |-> LowerChar(s[i])]
toUpperCase(s) == [i \in 1..Len(s) |-> UpperChar(s[i])]

\* String.prototype.trim
trim(s) ==
  LET keep == {i \in 1..Len(s) : s[i] \notin Whitespace}
  IN IF keep = {} THEN <<>>
     ELSE LET lo == CHOOSE i \in keep : \A j \in keep : i <= j
              hi == CHOOSE i \in keep : \A j \in keep : j <= i
          IN SubSeq(s, lo, hi)

\* s.slice(0, n) for n >= 0
slice0(s, n) == IF Len(s) > n THEN SubSeq(s, 1, n) ELSE s

\* String(v) for the values it converts (see StringThrows for the others)
ToStr(v) ==
  CASE v.t = "string" -> v.s
    [] v.t = "boolean" -> IF v.b THEN <<"t","r","u","e">> ELSE <<"f","a","l","s","e">>
    [] v.t = "null" -> <<"n","u","l","l">>
    [] v.t = "undefined" -> <<"u","n","d","e","f","i","n","e","d">>
    [] OTHER -> <<"[","o","b","j","e","c","t"," ","O","b","j","e","c","t","]">>

\* String(v) throws a TypeError: v is an object whose own toString is not a
\* function, so that neither toString nor Object.prototype.valueOf yields a
\* primitive
StringThrows(v) == v.t = "object" /\ v.s = <<"toString">>

\* String(v || "").trim()
TrimmedField(v) == IF Truthy(v) THEN trim(ToStr(v)) ELSE <<>>

----------------------------------------------------------------------------
(* Completion text: a sequence of runs.                                    *)

Brace(c) == [c |-> c, n |-> 1, k |-> "", v |-> JUndef]
Prose(n) == [c |-> "x", n |-> n, k |-> "", v |-> JUndef]
Blank(n) == [c |-> " ", n |-> n, k |-> "", v |-> JUndef]
Member(k, v) == [c |-> "m", n |-> 12, k |-> k, v |-> v]

Min(a, b) == IF a < b THEN a ELSE b
Max(a, b) == IF a > b THEN a ELSE b

RECURSIVE TextLen(_)
\* text.length
TextLen(text) == IF text = <<>> THEN 0 ELSE Head(text).n + TextLen(Tail(text))

\* the character offset (0-based) at which run i starts
Offset(text, i) == TextLen(SubSeq(text, 1, i - 1))

NonEmptyRun(r) == r.n > 0

\* text.slice(a, b) for 0 <= a; a run cut in the middle is left as characters
TextSlice(text, a, b) ==
  LET piece(i) ==
        LET r == text[i]
            o == Offset(text, i)
            ov == Min(o + r.n, b) - Max(o, a)
        IN IF ov >= r.n THEN r
           ELSE IF ov <= 0 THEN Prose(0)
           ELSE IF r.c = " " THEN Blank(ov) ELSE Prose(ov)
  IN SelectSeq([i \in 1..Len(text) |-> piece(i)], NonEmptyRun)

\* text.indexOf("{") and text.lastIndexOf("}"), -1 when absent
indexOf(text, c) ==
  LET at == {i \in 1..Len(text) : text[i].c = c}
  IN IF at = {} THEN -1
     ELSE Offset(text, CHOOSE i \in at : \A j \in at : i <= j)
lastIndexOf(text, c) ==
  LET at == {i \in 1..Len(text) : text[i].c = c}
  IN IF at = {} THEN -1
     ELSE Offset(text, CHOOSE i \in at : \A j \in at : j <= i)

\* text.trim()
TextTrim(text) ==
  LET keep == {i \in 1..Len(text) : text[i].c # " "}
  IN IF keep = {} THEN <<>>
     ELSE LET lo == CHOOSE i \in keep : \A j \in keep : i <= j
              hi == CHOOSE i \in keep : \A j \in keep : j <= i
          IN SubSeq(text, lo, hi)

\* the keys the handlers read from the model's object
Keys == {"monthly", "currency", "plan", "confidence", "notes", "email",
         "cancelURL", "supportEmail", "subject", "body", "is_subscription",
         "subscription_name", "merchant_name", "price", "billing_period",
         "billing_email", "is_apple_subscription"}

\* does JSON.parse(js) return (TRUE) or throw (FALSE): one object, its
\* members between the two braces, nothing else but white space
JsonParses(js) ==
  /\ Len(js) >= 2
  /\ js[1].c = "{"
  /\ js[Len(js)].c = "}"
  /\ \A i \in 2..(Len(js) - 1) : js[i].c \in {"m", " "}

\* JSON.parse(js) when it returns: for a repeated key the last member wins
JsonObject(js) ==
  [k \in Keys |->
     LET at == {i \in 1..Len(js) : js[i].c = "m" /\ js[i].k = k}
     IN IF at = {} THEN JUndef
        ELSE js[CHOOSE i \in at : \A j \in at : j <= i].v]

----------------------------------------------------------------------------
(* Helpers of part_000 / part_002 / server.mjs.                            *)

\* safeTrim(s, n) on a short string value; "~" stands for the one-character
\* ellipsis the code appends
safeTrim(v, n) ==
  IF v.t # "string" THEN <<>>
  ELSE IF Len(v.s) > n THEN Append(SubSeq(v.s, 1, n), "~") ELSE v.s

\* safeTrim(text, n) on a completion text (always a string)
safeTrimText(text, n) ==
  IF TextLen(text) > n THEN Append(TextSlice(text, 0, n), Prose(1)) ELSE text

\* mutant of parseModelJSON: a text without a JSON object is taken for an
\* empty object
parseModelJSONLenient(rawText) ==
  LET start == indexOf(rawText, "{")
      end == lastIndexOf(rawText, "}")
      jsonStr == TextSlice(rawText, start, end + 1)
      found == ~(start = -1 \/ end = -1 \/ end <= start) /\ JsonParses(jsonStr)
  IN [ok |-> TRUE, statusCode |-> 200, message |-> "", raw |-> <<>>,
      parsed |-> found,
      obj |-> IF found THEN JsonObject(jsonStr) ELSE [k \in Keys |-> JUndef]]

\* parseModelJSON(rawText): [ok |-> TRUE, obj, parsed] or the thrown error
\* [ok |-> FALSE, statusCode, message, raw, parsed]; parsed says whether
\* JSON.parse was called
parseModelJSON(rawText) ==
  LET text == rawText
      start == indexOf(text, "{")
      end == lastIndexOf(text, "}")
      jsonStr == TextSlice(text, start, end + 1)
  IN IF start = -1 \/ end = -1 \/ end <= start
     THEN [ok |-> FALSE, statusCode |-> 502, message |-> "AI did not return JSON",
           raw |-> safeTrimText(text, 600), parsed |-> FALSE,
           obj |-> [k \in Keys |-> JUndef]]
     ELSE IF JsonParses(jsonStr)
     THEN [ok |-> TRUE, statusCode |-> 200, message |-> "", raw |-> <<>>,
           parsed |-> TRUE, obj |-> JsonObject(jsonStr)]
     ELSE [ok |-> FALSE, statusCode |-> 502, message |-> "AI returned invalid JSON",
           raw |-> safeTrimText(jsonStr, 600), parsed |-> TRUE,
           obj |-> [k \in Keys |-> JUndef]]

Digits == <<"0","1","2","3","4","5","6","7","8","9">>
IsDigit(c) == \E i \in 1..10 : Digits[i] = c
DigitVal(c) == (CHOOSE i \in 1..10 : Digits[i] = c) - 1

RECURSIVE DecVal(_)
\* the value of a string of digits
DecVal(ds) == IF ds = <<>> THEN 0
              ELSE 10 * DecVal(SubSeq(ds, 1, Len(ds) - 1)) + DigitVal(ds[Len(ds)])

IsNumChar(c) == IsDigit(c) \/ c = "."

\* Number(s) for s made of digits and dots, in hundredths (two decimals
\* kept): "" is 0, more than one dot or no digit is NaN (JNull here means NaN)
NumberOf(s) ==
  LET dots == {i \in 1..Len(s) : s[i] = "."}
  IN IF s = <<>> THEN JNum(0)
     ELSE IF Cardinality(dots) > 1 \/ Cardinality(dots) = Len(s) THEN JNull
     ELSE IF dots = {} THEN JNum(100 * DecVal(s))
     ELSE LET d == CHOOSE i \in dots : TRUE
              ip == SubSeq(s, 1, d - 1)
              fp == SubSeq(s, d + 1, Len(s))
              f2 == SubSeq(fp \o <<"0", "0">>, 1, 2)
          IN JNum(100 * DecVal(ip) + DecVal(f2))

\* toNumberOrNull(v)
toNumberOrNull(v) ==
  IF v.t = "number" THEN v
  ELSE IF v.t = "string" THEN NumberOf(SelectSeq(v.s, IsNumChar))
  ELSE JNull

\* clamp01(x), in hundredths
clamp01(x) ==
  IF x.t # "number" THEN 20
  ELSE Max(0, Min(100, x.n))

\* normCountryCode(v)
normCountryCode(v) ==
  LET cc == toUpperCase(trim(IF Truthy(v) THEN ToStr(v) ELSE <<"U", "S">>))
  IN IF slice0(cc, 2) # <<>> THEN slice0(cc, 2) ELSE <<"U", "S">>

----------------------------------------------------------------------------
(* HTTP responses.                                                         *)

\* res.json(r): the fields of r, an undefined field left out, a non-finite
\* number written as null
Json(r) == [f \in {g \in DOMAIN r : r[g] # JUndef} |->
              IF r[f] = JInf THEN JNull ELSE r[f]]

\* body[f], undefined when the body has no such field
Get(body, f) == IF f \in DOMAIN body THEN body[f] ELSE JUndef

\* a response as the history keeps it: the route, the status and body sent,
\* the request's trimmed subscriptionName and normalized countryCode, the
\* number of completion calls the request made, and the time it was sent
Response(route, status, body, subscriptionName, countryCode, calls, at) ==
  [route |-> route, status |-> status, body |-> body,
   subscriptionName |-> subscriptionName, countryCode |-> countryCode,
   calls |-> calls, at |-> at]

\* the same with what the completion call returned: the text (got = FALSE
\* when the call threw) and whether JSON.parse was called on it
Completed(resp, c, parsed) ==
  resp @@ [got |-> ~c.threw, text |-> c.text, parsed |-> ~c.threw /\ parsed]

NoResponse == Response("none", 0, Json(<<>>), <<>>, <<>>, 0, 0)

----------------------------------------------------------------------------
(* The price cache (part_000 163-164, server.mjs 119-120).                 *)

PRICE_CACHE_TTL_MS == 24 * 60 * 60 * 1000

\* `${subscriptionName.toLowerCase()}|${countryCode}`
CacheKey(subscriptionName, countryCode) ==
  toLowerCase(subscriptionName) \o <<"|">> \o countryCode

\* mutant of CacheHit: the expiry test made inclusive
CacheHitInclusive(cache, cacheKey, now) ==
  cacheKey \in DOMAIN cache /\ cache[cacheKey].expiresAt >= now

\* cached && cached.expiresAt > now
CacheHit(cache, cacheKey, now) ==
  cacheKey \in DOMAIN cache /\ cache[cacheKey].expiresAt > now

\* mutant of CacheSet: an entry already present is kept
CacheSetIfAbsent(cache, cacheKey, entry) ==
  [k \in DOMAIN cache \cup {cacheKey} |->
     IF k \in DOMAIN cache THEN cache[k] ELSE entry]

\* priceCache.set(cacheKey, entry)
CacheSet(cache, cacheKey, entry) ==
  [k \in DOMAIN cache \cup {cacheKey} |->
     IF k = cacheKey THEN entry ELSE cache[k]]

----------------------------------------------------------------------------
(* POST /api/price-suggest (part_000 169-247, part_002, server.mjs 130-208)*)

PriceVariants == {"server.mjs", "part_000", "part_002"}

\* the catch block: the body for a thrown error
CaughtBody(statusCode, message, raw) ==
  Json([error |-> JMsg(IF statusCode = 500 THEN "Server error" ELSE message),
        raw |-> IF Truthy(JStr(raw)) THEN JStr(raw) ELSE JUndef])

\* the payload built from the model's object
PricePayload(subscriptionName, countryCode, obj, at) ==
  LET monthly == toNumberOrNull(obj.monthly)
      currency == IF obj.currency.t = "string"
                  THEN JStr(toUpperCase(trim(obj.currency.s))) ELSE JNull
      plan == IF obj.plan.t = "string" THEN JStr(trim(obj.plan.s)) ELSE JNull
      confidence == clamp01(toNumberOrNull(obj.confidence))
      notes == IF obj.notes.t = "string" THEN safeTrim(obj.notes, 240) ELSE <<>>
  IN Json([subscriptionName |-> JStr(subscriptionName),
           countryCode |-> JStr(countryCode),
           monthly |-> IF monthly.t # "null" /\ monthly.n >= 0 THEN monthly ELSE JNull,
           currency |-> IF Truthy(currency) THEN currency ELSE JNull,
           plan |-> IF Truthy(plan) THEN plan ELSE JNull,
           confidence |-> JNum(confidence),
           notes |-> JStr(notes),
           verifiedAt |-> JDate(at),
           cacheHit |-> JBool(FALSE)])

\* mutant of HitBody: the cached value sent as stored
HitBodyAsStored(value) == value

\* { ...cached.value, cacheHit: true }
HitBody(value) == [value EXCEPT !.cacheHit = JBool(TRUE)]

\* mutant of CacheAfterHit: the stored value itself is marked as a hit
CacheAfterHitMarked(cache, cacheKey) ==
  [cache EXCEPT ![cacheKey].value.cacheHit = JBool(TRUE)]

\* the map after line 183 served a hit: the spread copies the stored value,
\* nothing is written
CacheAfterHit(cache, cacheKey) == cache

\* a request suspended at  await openai.responses.create(...)  : its locals
Suspended(subscriptionName, countryCode, now) ==
  [subscriptionName |-> subscriptionName, countryCode |-> countryCode, now |-> now]

\* what the completion collaborator does: it throws, or returns output_text
Threw == [threw |-> TRUE, text |-> <<>>]
Returned(text) == [threw |-> FALSE, text |-> text]

\* request bodies of /api/price-suggest
NameInputs == {JUndef, JStr(<<" ">>), JStr(<<"N">>), JStr(<<"n", " ">>)}
CountryInputs == {JUndef, JStr(<<"u", "s", " ">>)}

\* completion texts answering the price prompt
PriceTexts ==
  { <<Prose(5)>>,
    <<Brace("{"), Prose(4), Brace("}")>>,
    <<Prose(3), Brace("{"), Member("monthly", JNum(999)),
      Member("currency", JStr(<<"u", "s", "d">>)),
      Member("confidence", JNum(170)), Brace("}"), Prose(2)>> }

\* lines 171-184 and 209-213: the handler up to its first await
PriceSuggestArrive(name, cc) ==
  LET subscriptionName == TrimmedField(name)
      countryCode == normCountryCode(cc)
      cacheKey == CacheKey(subscriptionName, countryCode)
      now == clock
  IN /\ variant \in PriceVariants
     /\ UNCHANGED <<variant, OPENAI_API_KEY, GOOGLE_CLIENT_ID, clock,
                    api, lastWrite>>
     /\ IF subscriptionName = <<>>
        THEN /\ last' = Response("price-suggest", 400,
                          Json([error |-> JMsg("subscriptionName is required")]),
                          subscriptionName, countryCode, 0, clock)
             /\ UNCHANGED <<reqs, priceCache>>
        ELSE IF CacheHit(priceCache, cacheKey, now)
        THEN /\ last' = Response("price-suggest", 200,
                          HitBody(priceCache[cacheKey].value),
                          subscriptionName, countryCode, 0, clock)
             /\ priceCache' = CacheAfterHit(priceCache, cacheKey)
             /\ UNCHANGED reqs
        ELSE IF ~OPENAI_API_KEY
        THEN /\ last' = Response("price-suggest", 500,
                          CaughtBody(500, "Missing OPENAI_API_KEY", <<>>),
                          subscriptionName, countryCode, 0, clock)
             /\ UNCHANGED <<reqs, priceCache>>
        ELSE /\ BagCardinality(reqs) < MaxInFlight
             /\ reqs' = reqs (+) SetToBag({Suspended(subscriptionName, countryCode, now)})
             /\ UNCHANGED <<last, priceCache>>

\* lines 215-246: the handler from the return of the completion call
PriceSuggestResume(r, c) ==
  LET cacheKey == CacheKey(r.subscriptionName, r.countryCode)
      p == parseModelJSON(c.text)
      payload == PricePayload(r.subscriptionName, r.countryCode, p.obj, clock)
  IN /\ BagIn(r, reqs)
     /\ reqs' = reqs (-) SetToBag({r})
     /\ UNCHANGED <<variant, OPENAI_API_KEY, GOOGLE_CLIENT_ID, clock, api>>
     /\ IF c.threw
        THEN /\ last' = Completed(Response("price-suggest", 500,
                          CaughtBody(500, "upstream error", <<>>),
                          r.subscriptionName, r.countryCode, 1, clock), c, FALSE)
             /\ UNCHANGED <<priceCache, lastWrite>>
        ELSE IF ~p.ok
        THEN /\ last' = Completed(Response("price-suggest", p.statusCode,
                          CaughtBody(p.statusCode, p.message, p.raw),
                          r.subscriptionName, r.countryCode, 1, clock),
                          c, p.parsed)
             /\ UNCHANGED <<priceCache, lastWrite>>
        ELSE /\ priceCache' = CacheSet(priceCache, cacheKey,
                                [expiresAt |-> r.now + PRICE_CACHE_TTL_MS,
                                 value |-> payload])
             /\ lastWrite' = [k \in DOMAIN lastWrite \cup {cacheKey} |->
                                IF k = cacheKey
                                THEN [now |-> r.now, value |-> payload]
                                ELSE lastWrite[k]]
             /\ last' = Completed(Response("price-suggest", 200, payload,
                          r.subscriptionName, r.countryCode, 1, clock),
                          c, p.parsed)

\* time passes, half a TTL at a time
Tick ==
  /\ clock + PRICE_CACHE_TTL_MS \div 2 <= MaxTicks * (PRICE_CACHE_TTL_MS \div 2)
  /\ clock' = clock + PRICE_CACHE_TTL_MS \div 2
  /\ UNCHANGED <<variant, OPENAI_API_KEY, GOOGLE_CLIENT_ID, priceCache,
                 reqs, api, last, lastWrite>>

----------------------------------------------------------------------------
(* The routes that keep no state: one request is followed through its      *)
(* awaits.  `api` holds the suspended handler's position and locals, and   *)
(* `last` is the response to the request followed, none while it is        *)
(* suspended.                                                              *)

IdleApi == [pc |-> "idle"]

\* the history of one such request: its Authorization header, the number of
\* token verifications it made, whether the verifier rejected the token, the
\* payload the verifier returned, the number of completion calls it made,
\* the completion text returned last (got = FALSE when none was), whether
\* JSON.parse was called on that text, and the liveness probes it issued
\* with their outcomes
NewTrace(h) ==
  [authorization |-> h, verifies |-> 0, rejected |-> FALSE,
   payload |-> [t |-> "undefined", email |-> JUndef],
   calls |-> 0, got |-> FALSE, text |-> <<>>, parsed |-> FALSE,
   probes |-> <<>>]

\* the response sent, with the history of its request
ApiResponse(route, status, body, subscriptionName, tr) ==
  [route |-> route, status |-> status, body |-> body,
   subscriptionName |-> subscriptionName, countryCode |-> <<>>,
   at |-> clock] @@ tr

----------------------------------------------------------------------------
(* part_001: the identity-gated routes.                                    *)

\* mutant of getBearerToken: any scheme word is accepted
getBearerTokenAnyScheme(h) ==
  IF /\ Len(h) >= 8
     /\ h[7] = " "
     /\ \A i \in 8..Len(h) : h[i] # "\n"
  THEN SubSeq(h, 8, Len(h))
  ELSE <<>>

\* getBearerToken(req): the header matched against /^Bearer (.+)$/i; the
\* token (a non-empty string), or <<>> for null
getBearerToken(h) ==
  IF /\ Len(h) >= 8
     /\ toLowerCase(SubSeq(h, 1, 6)) = <<"b", "e", "a", "r", "e", "r">>
     /\ h[7] = " "
     /\ \A i \in 8..Len(h) : h[i] # "\n"
  THEN SubSeq(h, 8, Len(h))
  ELSE <<>>

\* safeTrim(s, max) of part_001 on a completion text: trimmed, then cut
safeTrimPreview(text, max) ==
  IF text = <<>> THEN <<>>
  ELSE LET t == TextTrim(text)
       IN IF TextLen(t) > max THEN TextSlice(t, 0, max) ELSE t

\* mutant of UserEmail: the verified e-mail is dropped
UserEmailDropped(payload) == JNull

\* payload?.email || null, for the payload verifyGoogleIdToken returns
UserEmail(payload) ==
  IF payload.t = "object" /\ Truthy(payload.email) THEN payload.email ELSE JNull

\* lines 89-98: the body of the 200 response
ClassifyBody(obj, userEmail) ==
  Json([is_subscription |-> JBool(Truthy(obj.is_subscription)),
        subscription_name |-> IF Nullish(obj.subscription_name) THEN JNull
                              ELSE obj.subscription_name,
        merchant_name |-> IF Nullish(obj.merchant_name) THEN JNull
                          ELSE obj.merchant_name,
        price |-> IF TypeOf(obj.price) = "number" THEN obj.price ELSE JNull,
        currency |-> IF Nullish(obj.currency) THEN JNull ELSE obj.currency,
        billing_period |-> IF Nullish(obj.billing_period) THEN JNull
                           ELSE obj.billing_period,
        billing_email |-> IF ~Nullish(obj.billing_email) THEN obj.billing_email
                          ELSE IF ~Nullish(userEmail) THEN userEmail ELSE JNull,
        is_apple_subscription |->
          IF TypeOf(obj.is_apple_subscription) = "boolean"
          THEN obj.is_apple_subscription ELSE JNull])

\* the catch block of part_001
ServerError(message) ==
  Json([error |-> JMsg("Server error"), message |-> JMsg(message)])

\* Authorization headers
AuthHeaders ==
  { <<>>,
    <<"B", "e", "a", "r", "e", "r">>,
    <<"B", "e", "a", "r", "e", "r", " ">>,
    <<"D", "i", "g", "e", "s", "t", " ", "t">>,
    <<"B", "e", "a", "r", "e", "r", " ", "t">>,
    <<"b", "e", "a", "r", "e", "r", " ", "t">> }

\* what oauthClient.verifyIdToken does: it rejects the token (throws), or
\* the ticket's payload is undefined, or an object with or without an e-mail
NoClaims == NewTrace(<<>>).payload
Claims(email) == [t |-> "object", email |-> email]
VerifyOutcomes ==
  { [threw |-> TRUE, payload |-> NoClaims],
    [threw |-> FALSE, payload |-> NoClaims],
    [threw |-> FALSE, payload |-> Claims(JUndef)],
    [threw |-> FALSE, payload |-> Claims(JStr(<<>>))],
    [threw |-> FALSE, payload |-> Claims(JStr(<<"u", "@", "x">>))] }

\* completion texts answering the classification prompt
ClassifyTexts ==
  { <<>>,
    <<Prose(7)>>,
    <<Blank(2), Prose(450), Blank(1)>>,
    <<Prose(2), Brace("{"), Prose(3)>>,
    <<Brace("}"), Prose(2), Brace("{")>>,
    <<Brace("{"), Prose(4), Brace("}")>>,
    <<Brace("{"), Member("is_subscription", JBool(TRUE)), Brace("}"),
      Prose(2), Brace("{"), Brace("}")>>,
    <<Prose(3), Brace("{"), Member("is_subscription", JBool(TRUE)),
      Member("subscription_name", JStr(<<"N">>)),
      Member("price", JNum(999)),
      Member("billing_email", JStr(<<"b", "@", "y">>)),
      Member("is_apple_subscription", JBool(FALSE)), Brace("}")>>,
    <<Brace("{"), Member("is_subscription", JBool(FALSE)),
      Member("subscription_name", JStr(<<"N">>)),
      Member("merchant_name", JNum(100)),
      Member("price", JStr(<<"9">>)),
      Member("billing_email", JNull), Brace("}"), Blank(1)>>,
    <<Brace("{"), Member("is_subscription", JNull),
      Member("currency", JObject),
      Member("price", JInf),
      Member("is_apple_subscription", JStr(<<"n", "o">>)), Brace("}")>> }

\* lines 45-49 of /v1/classifySubscription and 107-111 of /v1/deleteMyData:
\* the handler up to  await verifyGoogleIdToken(idToken)
IdentityArrive(route, h) ==
  LET idToken == getBearerToken(h)
      tr == NewTrace(h)
  IN /\ variant = "part_001"
     /\ api.pc = "idle"
     /\ UNCHANGED <<variant, OPENAI_API_KEY, GOOGLE_CLIENT_ID, clock,
                    priceCache, reqs, lastWrite>>
     /\ IF idToken = <<>>
        THEN /\ last' = ApiResponse(route, 401,
                          Json([error |-> JMsg("Missing Authorization Bearer token")]),
                          <<>>, tr)
             /\ UNCHANGED api
        ELSE IF ~GOOGLE_CLIENT_ID
        THEN /\ last' = ApiResponse(route, 500,
                          Json([error |-> JMsg("Missing GOOGLE_CLIENT_ID on server")]),
                          <<>>, tr)
             /\ UNCHANGED api
        ELSE /\ api' = [pc |-> "verify", route |-> route,
                        tr |-> [tr EXCEPT !.verifies = 1]]
             /\ last' = NoResponse

ClassifyArrive(h) == IdentityArrive("classifySubscription", h)

DeleteArrive(h) == IdentityArrive("deleteMyData", h)

\* lines 49-78 and 111-116: from the return of the verification to the
\* completion call (classifySubscription) or the response (deleteMyData)
VerifyReturn(v) ==
  LET tr == [api.tr EXCEPT !.rejected = v.threw, !.payload = v.payload]
  IN /\ api.pc = "verify"
     /\ UNCHANGED <<variant, OPENAI_API_KEY, GOOGLE_CLIENT_ID, clock,
                    priceCache, reqs, lastWrite>>
     /\ IF v.threw
        THEN /\ last' = ApiResponse(api.route, 500,
                          ServerError("verification failed"), <<>>, tr)
             /\ api' = IdleApi
        ELSE IF api.route = "deleteMyData"
        THEN /\ last' = ApiResponse(api.route, 200,
                          Json([ok |-> JBool(TRUE), deleted |-> JBool(TRUE)]),
                          <<>>, tr)
             /\ api' = IdleApi
        ELSE /\ api' = [pc |-> "classify", route |-> api.route,
                        userEmail |-> UserEmail(v.payload),
                        tr |-> [tr EXCEPT !.calls = 1]]
             /\ last' = NoResponse

\* lines 80-102: from the return of the completion call to the response
ClassifyCompletionReturn(c) ==
  LET text == c.text
      start == indexOf(text, "{")
      end == lastIndexOf(text, "}")
      jsonStr == TextSlice(text, start, end + 1)
      tr == [api.tr EXCEPT !.got = ~c.threw, !.text = c.text]
      parsed == [tr EXCEPT !.parsed = TRUE]
  IN /\ api.pc = "classify"
     /\ api' = IdleApi
     /\ UNCHANGED <<variant, OPENAI_API_KEY, GOOGLE_CLIENT_ID, clock,
                    priceCache, reqs, lastWrite>>
     /\ IF c.threw
        THEN last' = ApiResponse(api.route, 500, ServerError("upstream error"),
                       <<>>, tr)
        ELSE IF start = -1 \/ end = -1
        THEN last' = ApiResponse(api.route, 502,
                       Json([error |-> JMsg("AI did not return JSON"),
                             raw |-> JStr(safeTrimPreview(text, 400))]),
                       <<>>, tr)
        ELSE IF ~JsonParses(jsonStr)
        THEN last' = ApiResponse(api.route, 500, ServerError("Unexpected token"),
                       <<>>, parsed)
        ELSE last' = ApiResponse(api.route, 200,
                       ClassifyBody(JsonObject(jsonStr), api.userEmail),
                       <<>>, parsed)

----------------------------------------------------------------------------
(* part_000: the link liveness check (lines 105-158).                      *)

HttpScheme == <<"h", "t", "t", "p", ":", "/", "/">>
HttpsScheme == <<"h", "t", "t", "p", "s", ":", "/", "/">>

IsLetter(c) == \E i \in 1..26 : Lower[i] = c \/ Upper[i] = c
IsDomainChar(c) == IsLetter(c) \/ IsDigit(c) \/ c \in {".", "-"}

\* /^https?:\/\//i.test(s)
HasHttpScheme(s) ==
  \/ Len(s) >= 7 /\ toLowerCase(SubSeq(s, 1, 7)) = HttpScheme
  \/ Len(s) >= 8 /\ toLowerCase(SubSeq(s, 1, 8)) = HttpsScheme

\* /^[a-z0-9.-]+\.[a-z]{2,}\/?/i.test(s)
LooksLikeDomain(s) ==
  \E d \in 2..(Len(s) - 2) :
    /\ s[d] = "."
    /\ \A i \in 1..(d - 1) : IsDomainChar(s[i])
    /\ IsLetter(s[d + 1])
    /\ IsLetter(s[d + 2])

\* ensureHttps(url): <<>> stands for null
ensureHttps(url) ==
  IF url.t # "string" THEN <<>>
  ELSE LET s == trim(url.s)
       IN IF s = <<>> THEN <<>>
          ELSE IF HasHttpScheme(s) THEN s
          ELSE IF LooksLikeDomain(s) THEN HttpsScheme \o s
          ELSE s

\* encodeURIComponent(c) for the characters of the names modelled: letters,
\* digits and marks are kept, a space becomes %20
EncodeChar(c) == IF c = " " THEN <<"%", "2", "0">> ELSE <<c>>

RECURSIVE encodeURIComponent(_)
encodeURIComponent(s) ==
  IF s = <<>> THEN <<>>
  ELSE EncodeChar(Head(s)) \o encodeURIComponent(Tail(s))

\* buildSearchURL(subscriptionName)
buildSearchURL(subscriptionName) ==
  <<"h", "t", "t", "p", "s", ":", "/", "/", "d", "u", "c", "k", "d",
      "u", "c", "k", "g", "o", ".", "c", "o", "m", "/", "?", "q", "=">>
  \o encodeURIComponent(subscriptionName \o
       <<" ", "c", "a", "n", "c", "e", "l", " ", "s", "u", "b", "s", "c",
           "r", "i", "p", "t", "i", "o", "n">>)

\* what fetch does: it throws (network error, abort by the 2500 ms timer),
\* or returns a response with a status and a final url ("" when unknown)
FetchThrew == [threw |-> TRUE, status |-> 0, url |-> <<>>]
Fetched(status, url) == [threw |-> FALSE, status |-> status, url |-> url]

\* mutant of Verdict: 4xx counted as reachable
VerdictBelow500(resp, url) ==
  LET status == resp.status
      finalUrl == IF resp.url # <<>> THEN resp.url ELSE url
  IN [ok |-> status >= 200 /\ status < 500, finalUrl |-> finalUrl, status |-> status]

\* lines 146-152: the verdict from the last response received
Verdict(resp, url) ==
  LET status == resp.status
      finalUrl == IF resp.url # <<>> THEN resp.url ELSE url
  IN [ok |-> status >= 200 /\ status < 400, finalUrl |-> finalUrl, status |-> status]

\* lines 122 and 154: no url to probe, or fetch threw
Unreachable == [ok |-> FALSE, finalUrl |-> <<>>, status |-> 0]

----------------------------------------------------------------------------
(* POST /api/cancel-contact (part_000 262-365, part_002 203-272).          *)

ContactVariants == {"part_000", "part_002"}

\* typeof v === "string" && v.trim() ? safeTrim(v.trim(), n) : null
TrimmedOrNull(v, n) ==
  IF v.t = "string" /\ trim(v.s) # <<>> THEN JStr(safeTrim(JStr(trim(v.s)), n))
  ELSE JNull

\* the two fixed fallback bodies
ContactFallback(notes) ==
  Json([email |-> JNull, cancelURL |-> JNull, confidence |-> JNum(0),
        notes |-> JMsg(notes)])

StatusDigits(n) == <<Digits[((n \div 100) % 10) + 1],
                     Digits[((n \div 10) % 10) + 1],
                     Digits[(n % 10) + 1]>>

\* (notes ? `${notes} ` : "") + message, cut to 240
NotesWith(notes, message) ==
  safeTrim(JStr((IF notes # <<>> THEN notes \o <<" ">> ELSE <<>>) \o message), 240)

\* lines 323-354 of part_000: the response once the liveness verdict is known
ContactChecked(subscriptionName, email, confidence, notes, check) ==
  IF check.ok /\ check.finalUrl # <<>>
  THEN Json([email |-> email,
             cancelURL |-> JStr(safeTrim(JStr(check.finalUrl), 500)),
             confidence |-> JNum(confidence),
             notes |-> JStr(notes)])
  ELSE Json([email |-> email,
             cancelURL |-> JStr(buildSearchURL(subscriptionName)),
             confidence |-> JNum(Min(confidence, 35)),
             notes |-> JStr(NotesWith(notes,
               <<"C", "a", "n", "c", "e", "l", " ", "l", "i", "n", "k", " ", "l",
                   "o", "o", "k", "e", "d", " ", "o", "u", "t", "d", "a", "t", "e",
                   "d", " ", "(">>
               \o (IF check.status # 0
                   THEN <<"s", "t", "a", "t", "u", "s", " ">> \o StatusDigits(check.status)
                   ELSE <<"u", "n", "r", "e", "a", "c", "h", "a", "b", "l", "e">>)
               \o <<")", ";", " ", "r", "e", "t", "u", "r", "n", "e", "d", " ", "a",
                      " ", "s", "a", "f", "e", " ", "s", "e", "a", "r", "c", "h", " ",
                      "l", "i", "n", "k", " ", "i", "n", "s", "t", "e", "a", "d", ".">>))])

\* lines 347-352 of part_000: the model gave no cancelURL
ContactNoURL(subscriptionName, email, confidence, notes) ==
  Json([email |-> email,
        cancelURL |-> JStr(buildSearchURL(subscriptionName)),
        confidence |-> JNum(Min(confidence, 30)),
        notes |-> JStr(NotesWith(notes,
          <<"N", "o", " ", "o", "f", "f", "i", "c", "i", "a", "l", " ", "c",
              "a", "n", "c", "e", "l", " ", "U", "R", "L", " ", "f", "o", "u",
              "n", "d", ";", " ", "r", "e", "t", "u", "r", "n", "e", "d", " ",
              "a", " ", "s", "a", "f", "e", " ", "s", "e", "a", "r", "c", "h",
              " ", "l", "i", "n", "k", ".">>))])

\* completion texts answering the cancel-contact prompt
ContactTexts ==
  { <<>>,
    <<Prose(700)>>,
    <<Brace("{"), Prose(4), Brace("}")>>,
    <<Prose(1), Brace("{"), Member("email", JStr(<<"s", "@", "a">>)),
      Member("cancelURL", JStr(<<"h", "t", "t", "p", "s", ":", "/", "/", "a", ".", "i", "o">>)),
      Member("confidence", JNum(90)), Member("notes", JStr(<<"o", "k">>)),
      Brace("}")>>,
    <<Brace("{"), Member("cancelURL", JStr(<<"a", ".", "i", "o", "/", "c", " ">>)),
      Member("confidence", JStr(<<"0", ".", "2", "5">>)), Brace("}")>>,
    <<Brace("{"), Member("cancelURL", JStr(<<"?">>)),
      Member("confidence", JNum(170)), Brace("}")>>,
    <<Brace("{"), Member("email", JNull), Member("cancelURL", JNull),
      Member("confidence", JNum(60)), Brace("}")>>,
    <<Brace("{"), Member("confidence", JStr(<<"h", "i", "g", "h">>)),
      Member("notes", JNum(100)), Brace("}")>> }

\* what a probe can be answered with
ProbeStatuses == {200, 301, 399, 400, 403, 405, 410, 500}
ProbeOutcomes ==
  {FetchThrew} \cup
  {Fetched(st, u) : st \in ProbeStatuses, u \in {<<>>, <<"h", "t", "t", "p", "s", ":", "/", "/", "f", ".", "i", "o">>}}

\* lines 265-304: the handler up to its completion call
CancelContactArrive(name, cc) ==
  LET subscriptionName == TrimmedField(name)
      countryCode == normCountryCode(cc)
      tr == NewTrace(<<>>)
  IN /\ variant \in ContactVariants
     /\ api.pc = "idle"
     /\ UNCHANGED <<variant, OPENAI_API_KEY, GOOGLE_CLIENT_ID, clock,
                    priceCache, reqs, lastWrite>>
     /\ IF subscriptionName = <<>>
        THEN /\ last' = ApiResponse("cancel-contact", 200,
                          ContactFallback("subscriptionName is required"),
                          subscriptionName, tr)
             /\ UNCHANGED api
        ELSE IF ~OPENAI_API_KEY
        THEN /\ last' = ApiResponse("cancel-contact", 200,
                          ContactFallback("Lookup unavailable right now - generating a cancel email draft instead."),
                          subscriptionName, tr)
             /\ UNCHANGED api
        ELSE /\ api' = [pc |-> "contact", route |-> "cancel-contact",
                        subscriptionName |-> subscriptionName,
                        tr |-> [tr EXCEPT !.calls = 1]]
             /\ last' = NoResponse

\* lines 306-325 (part_000) or to the response (part_002): from the return
\* of the completion call to the first probe or the response
CancelContactCompletionReturn(c) ==
  LET p == parseModelJSON(c.text)
      obj == p.obj
      tr == [api.tr EXCEPT !.got = ~c.threw, !.text = c.text, !.parsed = p.parsed]
      email == TrimmedOrNull(obj.email, 200)
      modelCancelURL == TrimmedOrNull(obj.cancelURL, 500)
      confidence == clamp01(toNumberOrNull(obj.confidence))
      notes == IF obj.notes.t = "string" THEN safeTrim(obj.notes, 240) ELSE <<>>
      url == ensureHttps(modelCancelURL)
  IN /\ api.pc = "contact"
     /\ UNCHANGED <<variant, OPENAI_API_KEY, GOOGLE_CLIENT_ID, clock,
                    priceCache, reqs, lastWrite>>
     /\ IF c.threw \/ ~p.ok
        THEN /\ last' = ApiResponse("cancel-contact", 200,
                          ContactFallback("Lookup unavailable right now - generating a cancel email draft instead."),
                          api.subscriptionName,
                          IF c.threw THEN [tr EXCEPT !.parsed = FALSE] ELSE tr)
             /\ api' = IdleApi
        ELSE IF variant = "part_002"
        THEN /\ last' = ApiResponse("cancel-contact", 200,
                          Json([email |-> email, cancelURL |-> modelCancelURL,
                                confidence |-> JNum(confidence),
                                notes |-> JStr(notes)]),
                          api.subscriptionName, tr)
             /\ api' = IdleApi
        ELSE IF ~Truthy(modelCancelURL)
        THEN /\ last' = ApiResponse("cancel-contact", 200,
                          ContactNoURL(api.subscriptionName, email, confidence, notes),
                          api.subscriptionName, tr)
             /\ api' = IdleApi
        ELSE IF url = <<>>
        THEN /\ last' = ApiResponse("cancel-contact", 200,
                          ContactChecked(api.subscriptionName, email, confidence,
                                         notes, Unreachable),
                          api.subscriptionName, tr)
             /\ api' = IdleApi
        ELSE /\ api' = [pc |-> "head", route |-> "cancel-contact",
                        subscriptionName |-> api.subscriptionName,
                        email |-> email, confidence |-> confidence,
                        notes |-> notes, url |-> url, tr |-> tr]
             /\ last' = NoResponse

\* mutant of NeedsGet: every 4xx answer to HEAD is retried
NeedsGetOn4xx(resp) == ~resp.threw /\ resp.status >= 400 /\ resp.status < 500

\* line 137: the HEAD response asks for the retry with GET
NeedsGet(resp) == ~resp.threw /\ (resp.status = 405 \/ resp.status = 403)

\* line 127: the one timer of a liveness check, set before the HEAD request
PROBE_TIMEOUT_MS == 2500

\* the time a server takes to answer a request
ProbeDelays == {100, 2000, 3000}

\* a fetch that would be answered with o after d ms, its signal aborted
\* `allowed` ms after it was issued: fetch throws on abort
Timed(method, o, d, allowed) ==
  IF d >= allowed
  THEN [method |-> method, resp |-> FetchThrew, took |-> allowed, aborted |-> TRUE]
  ELSE [method |-> method, resp |-> o, took |-> d, aborted |-> FALSE]

\* the call validateCancelableURL(candidateURL) with its result and the
\* requests it issued
Validated(candidateURL, check, probes) ==
  [route |-> "validateCancelableURL", arg |-> candidateURL, result |-> check,
   probes |-> probes]

\* the liveness check is over: the caller goes on with its result
ProbeDone(check, tr) ==
  IF api.route = "cancel-contact"
  THEN ApiResponse("cancel-contact", 200,
         ContactChecked(api.subscriptionName, api.email,
                        api.confidence, api.notes, check),
         api.subscriptionName, tr)
  ELSE Validated(api.candidateURL, check, tr.probes)

\* arguments of validateCancelableURL
CandidateURLs ==
  { JUndef, JNull, JNum(500), JObject, JStr(<<>>), JStr(<<" ">>),
    JStr(<<"a", ".", "i", "o">>), JStr(<<"?">>),
    JStr(HttpsScheme \o <<"a", ".", "i", "o">>) }

\* lines 120-129: validateCancelableURL up to its HEAD request
ValidateCall(candidateURL) ==
  LET url == ensureHttps(candidateURL)
  IN /\ variant = "part_000"
     /\ api.pc = "idle"
     /\ UNCHANGED <<variant, OPENAI_API_KEY, GOOGLE_CLIENT_ID, clock,
                    priceCache, reqs, lastWrite>>
     /\ IF url = <<>>
        THEN /\ last' = Validated(candidateURL, Unreachable, <<>>)
             /\ UNCHANGED api
        ELSE /\ api' = [pc |-> "head", route |-> "validateCancelableURL",
                        candidateURL |-> candidateURL, url |-> url,
                        tr |-> NewTrace(<<>>)]
             /\ last' = NoResponse

\* lines 130-157 and 327-354: the HEAD request ends, answered with o after
\* d ms or aborted by the timer
ProbeHeadReturn(o, d) ==
  LET f == Timed("HEAD", o, d, PROBE_TIMEOUT_MS)
      tr == [api.tr EXCEPT !.probes = Append(@, f)]
      check == IF f.resp.threw THEN Unreachable ELSE Verdict(f.resp, api.url)
  IN /\ api.pc = "head"
     /\ UNCHANGED <<variant, OPENAI_API_KEY, GOOGLE_CLIENT_ID, clock,
                    priceCache, reqs, lastWrite>>
     /\ IF NeedsGet(f.resp)
        THEN /\ api' = [api EXCEPT !.pc = "get", !.tr = tr]
             /\ last' = NoResponse
        ELSE /\ last' = ProbeDone(check, tr)
             /\ api' = IdleApi

\* lines 138-157 and 327-354: the GET request ends, answered with o after
\* d ms or aborted by the same timer, which has been running since before
\* the HEAD request
ProbeGetReturn(o, d) ==
  LET f == Timed("GET", o, d, PROBE_TIMEOUT_MS - api.tr.probes[1].took)
      tr == [api.tr EXCEPT !.probes = Append(@, f)]
      check == IF f.resp.threw THEN Unreachable ELSE Verdict(f.resp, api.url)
  IN /\ api.pc = "get"
     /\ UNCHANGED <<variant, OPENAI_API_KEY, GOOGLE_CLIENT_ID, clock,
                    priceCache, reqs, lastWrite>>
     /\ last' = ProbeDone(check, tr)
     /\ api' = IdleApi

----------------------------------------------------------------------------
(* POST /api/draft-cancel-email (part_000 371-466, part_002 280-375,       *)
(* server.mjs 215-275).                                                    *)

DraftVariants == {"server.mjs", "part_000", "part_002"}

\* part_000 lines 378-380
fallbackSubject(subscriptionName) ==
  IF subscriptionName # <<>>
  THEN <<"R", "e", "q", "u", "e", "s", "t", " ", "t", "o", " ", "c", "a", "n",
       "c", "e", "l", " ">> \o subscriptionName
  ELSE <<"R", "e", "q", "u", "e", "s", "t", " ", "t", "o", " ", "c", "a", "n",
       "c", "e", "l", " ", "s", "u", "b", "s", "c", "r", "i", "p", "t",
       "i", "o", "n">>

\* part_000 lines 382-411: the lines joined with "\n"
fallbackBody(subscriptionName, userName, accountEmail, reason) ==
  <<"H", "e", "l", "l", "o", " ", "S", "u", "p", "p", "o", "r", "t", ",",
      "\n", "\n">>
  \o (IF subscriptionName # <<>>
      THEN <<"P", "l", "e", "a", "s", "e", " ", "c", "a", "n", "c", "e", "l", " ",
           "m", "y", " ">>
           \o subscriptionName
           \o <<" ", "s", "u", "b", "s", "c", "r", "i", "p", "t", "i", "o", "n", " ",
              "e", "f", "f", "e", "c", "t", "i", "v", "e", " ", "i", "m",
              "m", "e", "d", "i", "a", "t", "e", "l", "y", " ", "a", "n",
              "d", " ", "s", "t", "o", "p", " ", "a", "l", "l", " ", "f",
              "u", "t", "u", "r", "e", " ", "c", "h", "a", "r", "g", "e",
              "s", ".">>
      ELSE <<"P", "l", "e", "a", "s", "e", " ", "c", "a", "n", "c", "e", "l", " ",
           "m", "y", " ", "s", "u", "b", "s", "c", "r", "i", "p", "t",
           "i", "o", "n", " ", "e", "f", "f", "e", "c", "t", "i", "v",
           "e", " ", "i", "m", "m", "e", "d", "i", "a", "t", "e", "l",
           "y", " ", "a", "n", "d", " ", "s", "t", "o", "p", " ", "a",
           "l", "l", " ", "f", "u", "t", "u", "r", "e", " ", "c", "h",
           "a", "r", "g", "e", "s", ".">>)
  \o (IF accountEmail # <<>>
      THEN <<"\n", "\n", "A", "c", "c", "o", "u", "n", "t", " ", "e", "m", "a", "i",
           "l", ":", " ">> \o accountEmail
      ELSE <<>>)
  \o (IF reason # <<>>
      THEN <<"\n", "\n", "R", "e", "a", "s", "o", "n", ":", " ">> \o reason
      ELSE <<>>)
  \o <<"\n", "\n", "P", "l", "e", "a", "s", "e", " ", "c", "o", "n", "f", "i",
     "r", "m", " ", "c", "a", "n", "c", "e", "l", "l", "a", "t", "i",
     "o", "n", " ", "i", "n", " ", "w", "r", "i", "t", "i", "n", "g",
     ".", "\n", "\n", "T", "h", "a", "n", "k", " ", "y", "o", "u", ",",
     "\n">>
  \o (IF userName # <<>> THEN userName ELSE <<"C", "u", "s", "t", "o", "m", "e", "r">>)

\* server.mjs lines 261-264 and part_000 lines 570-573: the template used
\* when the model gives no body
SupportBody(subscriptionName) ==
  <<"H", "e", "l", "l", "o", " ">> \o subscriptionName
  \o <<" ", "S", "u", "p", "p", "o", "r", "t", ",", "\n", "\n", "P", "l", "e",
     "a", "s", "e", " ", "c", "a", "n", "c", "e", "l", " ", "m", "y",
     " ", "s", "u", "b", "s", "c", "r", "i", "p", "t", "i", "o", "n",
     " ", "e", "f", "f", "e", "c", "t", "i", "v", "e", " ", "i", "m",
     "m", "e", "d", "i", "a", "t", "e", "l", "y", " ", "a", "n", "d",
     " ", "s", "t", "o", "p", " ", "a", "l", "l", " ", "f", "u", "t",
     "u", "r", "e", " ", "c", "h", "a", "r", "g", "e", "s", ".", "\n",
     "\n", "P", "l", "e", "a", "s", "e", " ", "c", "o", "n", "f", "i",
     "r", "m", " ", "c", "a", "n", "c", "e", "l", "l", "a", "t", "i",
     "o", "n", " ", "i", "n", " ", "w", "r", "i", "t", "i", "n", "g",
     ".", "\n", "\n", "T", "h", "a", "n", "k", " ", "y", "o", "u", ",",
     "\n", "C", "u", "s", "t", "o", "m", "e", "r">>

\* the draft a variant falls back to
DraftFallback(subscriptionName, userName, accountEmail, reason) ==
  IF variant = "server.mjs"
  THEN [subject |-> <<"R", "e", "q", "u", "e", "s", "t", " ", "t", "o", " ", "c", "a", "n",
       "c", "e", "l", " ">> \o subscriptionName,
        body |-> SupportBody(subscriptionName)]
  ELSE [subject |-> fallbackSubject(subscriptionName),
        body |-> fallbackBody(subscriptionName, userName, accountEmail, reason)]

\* typeof v === "string" && v.trim() ? safeTrim(v.trim(), n) : fallback
TrimmedOr(v, n, fallback) ==
  IF v.t = "string" /\ trim(v.s) # <<>> THEN safeTrim(JStr(trim(v.s)), n)
  ELSE fallback

DraftBody(draft) == Json([subject |-> JStr(draft.subject), body |-> JStr(draft.body)])

\* the optional fields of the request body
OptionalInputs == {JUndef, JStr(<<"A", " ">>)}

\* completion texts answering the draft prompt
DraftTexts ==
  { <<>>,
    <<Prose(700)>>,
    <<Brace("{"), Prose(4), Brace("}")>>,
    <<Brace("{"), Member("subject", JStr(<<"S", " ">>)),
      Member("body", JStr(<<"B">>)), Brace("}")>>,
    <<Brace("{"), Member("subject", JStr(<<" ">>)),
      Member("body", JNum(500)), Brace("}")>> }

\* the request bodies' subscriptionName, with one String() cannot convert
DraftNameInputs == NameInputs \cup {JNoToString}

\* the handler's promise rejected and nothing answered the request: the
\* handler has ended, no response was sent and none will be
Unanswered(route) == [pc |-> "rejected", route |-> route]

\* the handler up to its completion call.  server.mjs converts the body
\* fields inside its try, the later files before it (part_000 373-376),
\* where a throw rejects the handler's promise: a router that forwards
\* rejections (Express 5) answers 500 with its error page, one that does not
\* (Express 4) leaves the request unanswered
DraftArrive(name, user, account, why) ==
  LET subscriptionName == TrimmedField(name)
      userName == TrimmedField(user)
      accountEmail == TrimmedField(account)
      reason == TrimmedField(why)
      tr == NewTrace(<<>>)
      draft == DraftFallback(subscriptionName, userName, accountEmail, reason)
  IN /\ variant \in DraftVariants
     /\ api.pc = "idle"
     /\ UNCHANGED <<variant, OPENAI_API_KEY, GOOGLE_CLIENT_ID, clock,
                    priceCache, reqs, lastWrite>>
     /\ IF \E v \in {name, user, account, why} : Truthy(v) /\ StringThrows(v)
        THEN IF variant = "server.mjs"
             THEN /\ last' = ApiResponse("draft-cancel-email", 500,
                               CaughtBody(500, "TypeError", <<>>), <<>>, tr)
                  /\ UNCHANGED api
             ELSE \/ /\ api' = Unanswered("draft-cancel-email")
                     /\ last' = NoResponse
                  \/ /\ last' = ApiResponse("draft-cancel-email", 500,
                                  Json(<<>>), <<>>, tr)
                     /\ UNCHANGED api
        ELSE IF subscriptionName = <<>>
        THEN /\ last' = IF variant = "server.mjs"
                        THEN ApiResponse("draft-cancel-email", 400,
                               Json([error |-> JMsg("subscriptionName is required")]),
                               subscriptionName, tr)
                        ELSE ApiResponse("draft-cancel-email", 200,
                               DraftBody(draft), subscriptionName, tr)
             /\ UNCHANGED api
        ELSE IF ~OPENAI_API_KEY
        THEN /\ last' = IF variant = "server.mjs"
                        THEN ApiResponse("draft-cancel-email", 500,
                               CaughtBody(500, "Missing OPENAI_API_KEY", <<>>),
                               subscriptionName, tr)
                        ELSE ApiResponse("draft-cancel-email", 200,
                               DraftBody(draft), subscriptionName, tr)
             /\ UNCHANGED api
        ELSE /\ api' = [pc |-> "draft", route |-> "draft-cancel-email",
                        subscriptionName |-> subscriptionName,
                        draft |-> draft,
                        tr |-> [tr EXCEPT !.calls = 1]]
             /\ last' = NoResponse

\* from the return of the completion call to the response
DraftCompletionReturn(c) ==
  LET p == parseModelJSON(c.text)
      obj == p.obj
      tr == [api.tr EXCEPT !.got = ~c.threw, !.text = c.text,
                           !.parsed = ~c.threw /\ p.parsed]
      subject == TrimmedOr(obj.subject, 120, api.draft.subject)
      body == TrimmedOr(obj.body, 2200, api.draft.body)
  IN /\ api.pc = "draft"
     /\ UNCHANGED <<variant, OPENAI_API_KEY, GOOGLE_CLIENT_ID, clock,
                    priceCache, reqs, lastWrite>>
     /\ api' = IdleApi
     /\ last' =
          IF c.threw
          THEN IF variant = "server.mjs"
               THEN ApiResponse("draft-cancel-email", 500,
                      CaughtBody(500, "fetch failed", <<>>), api.subscriptionName, tr)
               ELSE ApiResponse("draft-cancel-email", 200, DraftBody(api.draft),
                      api.subscriptionName, tr)
          ELSE IF ~p.ok
          THEN IF variant = "server.mjs"
               THEN ApiResponse("draft-cancel-email", p.statusCode,
                      CaughtBody(p.statusCode, p.message, p.raw),
                      api.subscriptionName, tr)
               ELSE ApiResponse("draft-cancel-email", 200, DraftBody(api.draft),
                      api.subscriptionName, tr)
          ELSE ApiResponse("draft-cancel-email", 200,
                 DraftBody([subject |-> subject, body |-> body]),
                 api.subscriptionName, tr)

----------------------------------------------------------------------------
(* POST /api/cancel-assist (part_000 477-593, part_002 386-502).           *)

AssistVariants == {"part_000", "part_002"}

\* typeof v === "string" && v.trim() ? v.trim() : null
TrimOrNull(v) ==
  IF v.t = "string" /\ trim(v.s) # <<>> THEN JStr(trim(v.s)) ELSE JNull

\* completion texts answering the lookup prompt
LookupTexts ==
  { <<>>,
    <<Prose(2), Brace("}"), Prose(700), Brace("{")>>,
    <<Brace("{"), Prose(700), Brace("}")>>,
    <<Brace("{"), Member("supportEmail", JStr(<<" ", "s", "@", "a">>)),
      Member("cancelURL", JStr(<<"a", ".", "i", "o">>)),
      Member("confidence", JNum(90)), Member("notes", JStr(<<"o", "k">>)),
      Brace("}")>>,
    <<Brace("{"), Member("supportEmail", JNull),
      Member("confidence", JStr(<<"h", "i">>)), Brace("}")>> }

\* lines 478-515: the handler up to its first completion call
CancelAssistArrive(name, cc) ==
  LET subscriptionName == TrimmedField(name)
      countryCode == normCountryCode(cc)
      tr == NewTrace(<<>>)
  IN /\ variant \in AssistVariants
     /\ api.pc = "idle"
     /\ UNCHANGED <<variant, OPENAI_API_KEY, GOOGLE_CLIENT_ID, clock,
                    priceCache, reqs, lastWrite>>
     /\ IF subscriptionName = <<>>
        THEN /\ last' = ApiResponse("cancel-assist", 400,
                          Json([error |-> JMsg("subscriptionName is required")]),
                          subscriptionName, tr)
             /\ UNCHANGED api
        ELSE IF ~OPENAI_API_KEY
        THEN /\ last' = ApiResponse("cancel-assist", 500,
                          CaughtBody(500, "Missing OPENAI_API_KEY", <<>>),
                          subscriptionName, tr)
             /\ UNCHANGED api
        ELSE /\ api' = [pc |-> "lookup", route |-> "cancel-assist",
                        subscriptionName |-> subscriptionName,
                        countryCode |-> countryCode,
                        tr |-> [tr EXCEPT !.calls = 1]]
             /\ last' = NoResponse

\* lines 517-560: from the return of the lookup call to the draft call
AssistLookupReturn(c) ==
  LET p == parseModelJSON(c.text)
      lookupObj == p.obj
      tr == [api.tr EXCEPT !.got = ~c.threw, !.text = c.text,
                           !.parsed = ~c.threw /\ p.parsed]
  IN /\ api.pc = "lookup"
     /\ UNCHANGED <<variant, OPENAI_API_KEY, GOOGLE_CLIENT_ID, clock,
                    priceCache, reqs, lastWrite>>
     /\ IF c.threw
        THEN /\ last' = ApiResponse("cancel-assist", 500,
                          CaughtBody(500, "fetch failed", <<>>),
                          api.subscriptionName, tr)
             /\ api' = IdleApi
        ELSE IF ~p.ok
        THEN /\ last' = ApiResponse("cancel-assist", p.statusCode,
                          CaughtBody(p.statusCode, p.message, p.raw),
                          api.subscriptionName, tr)
             /\ api' = IdleApi
        ELSE /\ api' = [pc |-> "assist-draft", route |-> "cancel-assist",
                        subscriptionName |-> api.subscriptionName,
                        countryCode |-> api.countryCode,
                        supportEmail |-> TrimOrNull(lookupObj.supportEmail),
                        cancelURL |-> TrimOrNull(lookupObj.cancelURL),
                        confidence |-> clamp01(toNumberOrNull(lookupObj.confidence)),
                        notes |-> IF lookupObj.notes.t = "string"
                                  THEN safeTrim(lookupObj.notes, 240) ELSE <<>>,
                        tr |-> [tr EXCEPT !.calls = 2]]
             /\ last' = NoResponse

\* lines 562-592: from the return of the draft call to the response; the
\* default subject is fallbackSubject of a non-empty name
AssistDraftReturn(c) ==
  LET p == parseModelJSON(c.text)
      draftObj == p.obj
      tr == [api.tr EXCEPT !.got = ~c.threw, !.text = c.text,
                           !.parsed = ~c.threw /\ p.parsed]
      emailSubject == TrimmedOr(draftObj.subject, 120,
                        fallbackSubject(api.subscriptionName))
      emailBody == TrimmedOr(draftObj.body, 2400, SupportBody(api.subscriptionName))
  IN /\ api.pc = "assist-draft"
     /\ UNCHANGED <<variant, OPENAI_API_KEY, GOOGLE_CLIENT_ID, clock,
                    priceCache, reqs, lastWrite>>
     /\ api' = IdleApi
     /\ last' =
          IF c.threw
          THEN ApiResponse("cancel-assist", 500,
                 CaughtBody(500, "fetch failed", <<>>), api.subscriptionName, tr)
          ELSE IF ~p.ok
          THEN ApiResponse("cancel-assist", p.statusCode,
                 CaughtBody(p.statusCode, p.message, p.raw),
                 api.subscriptionName, tr)
          ELSE ApiResponse("cancel-assist", 200,
                 Json([subscriptionName |-> JStr(api.subscriptionName),
                       countryCode |-> JStr(api.countryCode),
                       supportEmail |-> api.supportEmail,
                       cancelURL |-> api.cancelURL,
                       confidence |-> JNum(api.confidence),
                       notes |-> JStr(api.notes),
                       emailSubject |-> JStr(emailSubject),
                       emailBody |-> JStr(emailBody)]),
                 api.subscriptionName, tr)

Init ==
  /\ variant \in {"server.mjs", "part_000", "part_001", "part_002"}
  /\ OPENAI_API_KEY \in BOOLEAN
  /\ GOOGLE_CLIENT_ID \in BOOLEAN
  \* part_001 builds its OpenAI client at start-up (line 13), which needs the
  \* key; the other variants never read GOOGLE_CLIENT_ID
  /\ IF variant = "part_001" THEN OPENAI_API_KEY ELSE ~GOOGLE_CLIENT_ID
  /\ clock = 0
  /\ priceCache = <<>>
  /\ reqs = EmptyBag
  /\ api = IdleApi
  /\ last = NoResponse
  /\ lastWrite = <<>>

\* the price cache under concurrent /api/price-suggest requests
InitPrice == Init /\ variant \in PriceVariants

NextPrice ==
  \/ \E name \in NameInputs, cc \in CountryInputs : PriceSuggestArrive(name, cc)
  \/ \E r \in BagToSet(reqs), c \in {Threw} \cup {Returned(t) : t \in PriceTexts} :
       PriceSuggestResume(r, c)
  \/ Tick

SpecPrice == InitPrice /\ [][NextPrice]_vars

\* the other routes, one request at a time
NextApi ==
  \/ \E h \in AuthHeaders : ClassifyArrive(h)
  \/ \E h \in AuthHeaders : DeleteArrive(h)
  \/ \E v \in VerifyOutcomes : VerifyReturn(v)
  \/ \E c \in {Threw} \cup {Returned(t) : t \in ClassifyTexts} :
       ClassifyCompletionReturn(c)
  \/ \E name \in NameInputs, cc \in CountryInputs : CancelContactArrive(name, cc)
  \/ \E c \in {Threw} \cup {Returned(t) : t \in ContactTexts} :
       CancelContactCompletionReturn(c)
  \/ \E o \in ProbeOutcomes, d \in ProbeDelays : ProbeHeadReturn(o, d)
  \/ \E o \in ProbeOutcomes, d \in ProbeDelays : ProbeGetReturn(o, d)
  \/ \E name \in DraftNameInputs, user, account, why \in OptionalInputs :
       DraftArrive(name, user, account, why)
  \/ \E c \in {Threw} \cup {Returned(t) : t \in DraftTexts} :
       DraftCompletionReturn(c)
  \/ \E name \in NameInputs, cc \in CountryInputs : CancelAssistArrive(name, cc)
  \/ \E c \in {Threw} \cup {Returned(t) : t \in LookupTexts} : AssistLookupReturn(c)
  \/ \E c \in {Threw} \cup {Returned(t) : t \in DraftTexts} : AssistDraftReturn(c)

SpecApi == Init /\ [][NextApi]_vars

\* /api/price-suggest requests interleaved with requests of the other
\* routes of the same server
InitFrame == Init /\ variant = "part_002" /\ OPENAI_API_KEY

NextFrame ==
  \/ \E name \in {JUndef, JStr(<<"N">>)} : PriceSuggestArrive(name, JUndef)
  \/ \E r \in BagToSet(reqs), c \in {Threw} \cup {Returned(t) : t \in PriceTexts} :
       PriceSuggestResume(r, c)
  \/ Tick
  \/ \E name \in {JUndef, JStr(<<"N">>)} : CancelContactArrive(name, JUndef)
  \/ \E c \in {Threw} \cup {Returned(t) : t \in ContactTexts} :
       CancelContactCompletionReturn(c)
  \/ \E name \in {JUndef, JStr(<<"N">>), JNoToString} :
       DraftArrive(name, JUndef, JUndef, JUndef)
  \/ \E c \in {Threw} \cup {Returned(t) : t \in DraftTexts} : DraftCompletionReturn(c)
  \/ \E name \in {JUndef, JStr(<<"N">>)} : CancelAssistArrive(name, JUndef)
  \/ \E c \in {Threw} \cup {Returned(t) : t \in LookupTexts} : AssistLookupReturn(c)
  \/ \E c \in {Threw} \cup {Returned(t) : t \in DraftTexts} : AssistDraftReturn(c)

SpecFrame == InitFrame /\ [][NextFrame]_vars

\* the liveness check called on candidates of every kind
InitProbe == Init /\ variant = "part_000" /\ OPENAI_API_KEY

NextProbe ==
  \/ \E candidateURL \in CandidateURLs : ValidateCall(candidateURL)
  \/ \E o \in ProbeOutcomes, d \in ProbeDelays : ProbeHeadReturn(o, d)
  \/ \E o \in ProbeOutcomes, d \in ProbeDelays : ProbeGetReturn(o, d)

SpecProbe == InitProbe /\ [][NextProbe]_vars

----------------------------------------------------------------------------
(* The helper functions applied to inputs of every kind: `last` holds the  *)
(* last call, its argument and its result.                                 *)

FnAlphabet == {"9", ".", "f", " "}

RECURSIVE StringsUpTo(_)
StringsUpTo(n) ==
  IF n = 0 THEN {<<>>}
  ELSE LET shorter == StringsUpTo(n - 1)
       IN shorter \cup {Append(t, c) : t \in shorter, c \in FnAlphabet}

\* model output and request fields: every short string and some longer ones
FnStrings ==
  StringsUpTo(MaxStrLen) \cup
  { <<"$", "9", ".", "9", "9", "/", "m", "o">>,
    <<"f", "r", "e", "e">>,
    <<"c", "a">>,
    <<" ", "g", "b", "r", " ">> }

\* values of other types
FnNumbers == {JNum(-20), JNum(0), JNum(50), JNum(100), JNum(170), JNum(999)}
FnOthers == {JUndef, JNull, JBool(TRUE), JBool(FALSE), JObject}

Applied(fn, arg, result) == [route |-> fn, arg |-> arg, result |-> result]

ToNumberOrNullCall(v) ==
  /\ last' = Applied("toNumberOrNull", v, toNumberOrNull(v))
  /\ UNCHANGED <<variant, OPENAI_API_KEY, GOOGLE_CLIENT_ID, clock,
                 priceCache, reqs, api, lastWrite>>

\* clamp01 is applied to what toNumberOrNull returns
Clamp01Call(v) ==
  /\ last' = Applied("clamp01", v, JNum(clamp01(toNumberOrNull(v))))
  /\ UNCHANGED <<variant, OPENAI_API_KEY, GOOGLE_CLIENT_ID, clock,
                 priceCache, reqs, api, lastWrite>>

NormCountryCodeCall(v) ==
  /\ last' = Applied("normCountryCode", v, JStr(normCountryCode(v)))
  /\ UNCHANGED <<variant, OPENAI_API_KEY, GOOGLE_CLIENT_ID, clock,
                 priceCache, reqs, api, lastWrite>>

InitFn == Init /\ variant = "part_000" /\ OPENAI_API_KEY

NextFn ==
  \/ \E v \in FnNumbers \cup FnOthers \cup {JInf} \cup {JStr(t) : t \in FnStrings} :
       ToNumberOrNullCall(v)
  \/ \E v \in FnNumbers \cup FnOthers \cup {JInf} \cup {JStr(t) : t \in FnStrings} :
       Clamp01Call(v)
  \/ \E v \in FnOthers \cup {JStr(t) : t \in FnStrings} : NormCountryCodeCall(v)

SpecFn == InitFn /\ [][NextFn]_vars

----------------------------------------------------------------------------
(* Properties of the price cache, checked under SpecPrice.                 *)

PayloadFields == {"subscriptionName", "countryCode", "monthly", "currency",
                  "plan", "confidence", "notes", "verifiedAt", "cacheHit"}

\* the response `last` is a fresh (not cached) success of /api/price-suggest
FreshSuccess(resp) ==
  resp.route = "price-suggest" /\ resp.status = 200 /\ resp.calls = 1

\* a step in which /api/price-suggest answers a request at once, without a
\* completion call (400, cache hit, or missing credential)
AnsweredAtOnce ==
  /\ last' # last
  /\ last'.route = "price-suggest"
  /\ last'.calls = 0

\* a step in which the request r suspends at its completion call
SuspendsAtCall(r) == reqs' = reqs (+) SetToBag({r})

\* a step in which a suspended request is resumed and answered
AnsweredAfterCall ==
  /\ BagCardinality(reqs') < BagCardinality(reqs)
  /\ last'.calls = 1

\* C1: of two consecutive /api/price-suggest requests with the same
\* (subscriptionName, countryCode), the first a fresh success: the first
\* response has cacheHit=false; when the second arrives before the entry the
\* first wrote expires (first timestamp + 24h), it is answered at once, with
\* no completion call, status 200, cacheHit=true and every other field equal
\* to the first response; it suspends at a completion call only when it
\* arrives at or after the expiry; and every 200 response that follows a
\* completion call has cacheHit=false.
C1_CacheIdempotence ==
  [][ LET cacheKey == CacheKey(last.subscriptionName, last.countryCode)
          expiry == lastWrite[cacheKey].now + PRICE_CACHE_TTL_MS
      IN /\ FreshSuccess(last)
              => /\ last.body.cacheHit = JBool(FALSE)
                 /\ cacheKey \in DOMAIN lastWrite
         /\ ( /\ FreshSuccess(last)
              /\ AnsweredAtOnce
              /\ last'.subscriptionName = last.subscriptionName
              /\ last'.countryCode = last.countryCode )
              => /\ clock < expiry
                 /\ last'.status = 200
                 /\ reqs' = reqs
                 /\ DOMAIN last'.body = DOMAIN last.body
                 /\ last'.body.cacheHit = JBool(TRUE)
                 /\ \A f \in DOMAIN last.body \ {"cacheHit"} :
                      last'.body[f] = last.body[f]
         /\ ( /\ FreshSuccess(last)
              /\ SuspendsAtCall(Suspended(last.subscriptionName,
                                          last.countryCode, clock)) )
              => /\ clock >= expiry
                 /\ last' = last
         /\ (AnsweredAfterCall /\ last'.status = 200)
              => last'.body.cacheHit = JBool(FALSE)
    ]_vars

\* C1 witness: a request answered from the cache, with its own name, at a
\* time later than the timestamp of the request that wrote the entry
C1_Witness ==
  /\ last.route = "price-suggest" /\ last.status = 200 /\ last.calls = 0
  /\ last.body.cacheHit = JBool(TRUE)
  /\ last.body.subscriptionName = JStr(last.subscriptionName)
  /\ LET cacheKey == CacheKey(last.subscriptionName, last.countryCode)
     IN cacheKey \in DOMAIN lastWrite /\ lastWrite[cacheKey].now < clock

\* C9: in every reachable state, under any interleaving of concurrent
\* requests, each cache entry is a complete price payload with
\* cacheHit=false, its expiresAt is the timestamp of the request that wrote
\* last plus 24h, and its value is the payload of that latest write.
C9_CacheWellFormed ==
  \A k \in DOMAIN priceCache :
    LET e == priceCache[k]
    IN /\ DOMAIN e.value = PayloadFields
       /\ e.value.cacheHit = JBool(FALSE)
       /\ e.value.subscriptionName.t = "string"
       /\ e.value.countryCode.t = "string"
       /\ e.value.monthly.t \in {"number", "null"}
       /\ e.value.confidence.t = "number"
       /\ e.value.confidence.n \in 0..100
       /\ k \in DOMAIN lastWrite
       /\ lastWrite[k].now <= clock
       /\ e.expiresAt = lastWrite[k].now + PRICE_CACHE_TTL_MS
       /\ e.value = lastWrite[k].value

\* C9 witness: two requests for one key both missed and both called: one
\* has written its entry while the other, which arrived before that entry
\* existed (the entry would have been a hit for it), is still suspended
C9_Witness ==
  \E r \in BagToSet(reqs) :
    LET k == CacheKey(r.subscriptionName, r.countryCode)
    IN k \in DOMAIN priceCache /\ priceCache[k].expiresAt > r.now

\* C10: a cache entry is never returned once now >= expiresAt: a request
\* for a key that has an entry is answered at once only while
\* now < expiresAt (and then with cacheHit=true); a request whose lookup
\* happens at now >= expiresAt (equal included) can only suspend at a
\* completion call, leaving the map as it is; and an entry stays in the map
\* unchanged until a successful write for its key replaces it.
C10_ExpiredNeverReturned ==
  [][ /\ LET cacheKey == CacheKey(last'.subscriptionName, last'.countryCode)
         IN /\ (AnsweredAtOnce /\ Get(last'.body, "cacheHit") = JBool(TRUE))
                 => /\ cacheKey \in DOMAIN priceCache
                    /\ clock < priceCache[cacheKey].expiresAt
            /\ ( /\ AnsweredAtOnce
                 /\ cacheKey \in DOMAIN priceCache
                 /\ clock >= priceCache[cacheKey].expiresAt )
                 => last'.subscriptionName = <<>>
      /\ \A r \in BagToSet(reqs') :
           LET cacheKey == CacheKey(r.subscriptionName, r.countryCode)
           IN ( /\ SuspendsAtCall(r)
                /\ cacheKey \in DOMAIN priceCache )
                => /\ clock >= priceCache[cacheKey].expiresAt
                   /\ priceCache' = priceCache
      /\ \A k \in DOMAIN priceCache :
           /\ k \in DOMAIN priceCache'
           /\ priceCache'[k] # priceCache[k]
                => /\ AnsweredAfterCall
                   /\ last'.status = 200
                   /\ CacheKey(last'.subscriptionName, last'.countryCode) = k
    ]_vars

\* C10 witness: an entry is in the map, expired, and a request that looked
\* it up at or after its expiry is suspended at its completion call
C10_Witness ==
  \E r \in BagToSet(reqs) :
    LET k == CacheKey(r.subscriptionName, r.countryCode)
    IN k \in DOMAIN priceCache /\ r.now >= priceCache[k].expiresAt

----------------------------------------------------------------------------
(* Properties of the routes that keep no state, checked under SpecApi.     *)

\* C2: in every variant that defines them, /api/cancel-contact and
\* /api/draft-cancel-email never answer with a non-2xx status, whatever the
\* request body is and however the completion call fails.
C2_NeverNon2xx ==
  last.route \in {"cancel-contact", "draft-cancel-email"}
    => last.status \in 200..299

IdentityRoutes == {"classifySubscription", "deleteMyData"}

\* the header is `Bearer <token>` with a non-empty token (the scheme name
\* of an Authorization header is case-insensitive)
WellFormedBearer(h) ==
  /\ Len(h) > 7
  /\ \A i \in 1..7 : LowerChar(h[i]) = <<"b", "e", "a", "r", "e", "r", " ">>[i]

\* C3: on /v1/classifySubscription and /v1/deleteMyData a request with no
\* well-formed `Bearer <token>` Authorization header is answered 401, and
\* in that request neither the token verification nor the completion is
\* ever called: no such request is ever suspended at a call, and its
\* response records no call.
C3_NoBearerMeans401 ==
  /\ (api.pc # "idle" /\ api.route \in IdentityRoutes)
       => WellFormedBearer(api.tr.authorization)
  /\ (last.route \in IdentityRoutes /\ ~WellFormedBearer(last.authorization))
       => /\ last.status = 401
          /\ last.verifies = 0
          /\ last.calls = 0

\* C3 witness: a request with a header of another scheme was answered 401
C3_Witness ==
  /\ last.route \in IdentityRoutes
  /\ last.authorization = <<"D", "i", "g", "e", "s", "t", " ", "t">>
  /\ last.status = 401

\* C4: on the identity-gated routes a request whose bearer token is present
\* but rejected by the token verification is answered 401, and the
\* completion is not called for it.
C4_RejectedMeans401 ==
  (last.route \in IdentityRoutes /\ last.rejected)
    => /\ last.status = 401
       /\ last.calls = 0

FailLoudlyRoutes == {"classifySubscription", "price-suggest", "cancel-assist"}

\* no `{`, no `}`, or the last `}` at or before the first `{`
ExtractionFails(text) ==
  LET opens == {i \in 1..Len(text) : text[i].c = "{"}
      closes == {i \in 1..Len(text) : text[i].c = "}"}
  IN \/ opens = {}
     \/ closes = {}
     \/ \A i \in opens, j \in closes : j <= i

\* the first-`{`..last-`}` substring is one strict JSON object
Extracted(text) ==
  LET first == CHOOSE i \in 1..Len(text) :
                 text[i].c = "{" /\ \A j \in 1..(i - 1) : text[j].c # "{"
      final == CHOOSE i \in 1..Len(text) :
                 text[i].c = "}" /\ \A j \in (i + 1)..Len(text) : text[j].c # "}"
  IN SubSeq(text, first, final)

NoJsonIn(text) == ExtractionFails(text) \/ ~JsonParses(Extracted(text))

\* the preview length of the route, one more for the ellipsis mark
PreviewBound(route) == IF route = "classifySubscription" THEN 400 ELSE 601

\* C5: on the fail-loudly endpoints, whenever the completion text has no
\* extractable or parseable JSON object, the response is 502 with an
\* `error` field and a raw preview no longer than the preview length, and
\* JSON.parse is never attempted when the extraction failed.
C5_FailLoudly502 ==
  (last.route \in FailLoudlyRoutes /\ last.calls > 0 /\ last.got
     /\ NoJsonIn(last.text))
    => /\ last.status = 502
       /\ "error" \in DOMAIN last.body
       /\ "raw" \in DOMAIN last.body
            => TextLen(last.body.raw.s) <= PreviewBound(last.route)
       /\ ExtractionFails(last.text) => ~last.parsed

\* the last response the liveness probe of the answered request received
LastProbe == last.probes[Len(last.probes)].resp

ProbeFailed == LastProbe.threw \/ LastProbe.status \notin 200..399

IdentificationFields == {"subscription_name", "merchant_name", "price", "currency",
                         "billing_period", "is_apple_subscription"}

\* C7: for every /v1/classifySubscription 200 response whose
\* is_subscription is false, subscription_name, merchant_name, price,
\* currency, billing_period and is_apple_subscription are all null,
\* whatever values the model put in them.
C7_NotSubscriptionNullsFields ==
  ( /\ last.route = "classifySubscription"
    /\ last.status = 200
    /\ last.body.is_subscription = JBool(FALSE) )
    => \A f \in IdentificationFields : last.body[f] = JNull

\* the email claim of the verified token, null when the claims carry none
VerifiedEmail(payload) ==
  IF payload.t = "object" /\ payload.email.t = "string" /\ payload.email.s # <<>>
  THEN payload.email ELSE JNull

\* C8: for every /v1/classifySubscription 200 response where the model's
\* object has no billing_email (key absent or null), the response's
\* billing_email equals the email claim of the verified identity token, or
\* null when the verified claims carry no email.
C8_BillingEmailFallsBack ==
  ( /\ last.route = "classifySubscription"
    /\ last.status = 200
    /\ JsonObject(Extracted(last.text)).billing_email \in {JUndef, JNull} )
    => last.body.billing_email = VerifiedEmail(last.payload)

\* C8 witness: the model's object had billing_email null and the response
\* carries the verified caller's e-mail
C8_Witness ==
  /\ last.route = "classifySubscription"
  /\ last.status = 200
  /\ JsonObject(Extracted(last.text)).billing_email = JNull
  /\ last.payload = Claims(JStr(<<"u", "@", "x">>))
  /\ last.body.billing_email = JStr(<<"u", "@", "x">>)

----------------------------------------------------------------------------
(* Properties of the helper functions, checked under SpecFn.               *)

HasDigit(t) == \E i \in 1..Len(t) : IsDigit(t[i])

\* a finite number unchanged; a string stripped of all but digits and dots
\* and parsed, null when nothing parseable is left; null otherwise
ToNullableNumber(v) ==
  IF v.t = "number" THEN v
  ELSE IF v.t = "string"
  THEN LET rest == SelectSeq(v.s, IsNumChar)
       IN IF HasDigit(rest) THEN NumberOf(rest) ELSE JNull
  ELSE JNull

\* C11: toNumberOrNull returns a finite number unchanged; for a string it
\* strips every character that is not a digit or a dot and parses the rest,
\* returning null when nothing parseable is left or the result is not
\* finite ("$9.99/mo" gives 9.99, "free" gives null); for any other type it
\* returns null.
C11_ToNullableNumber ==
  last.route = "toNumberOrNull" => last.result = ToNullableNumber(last.arg)

\* C12: normCountryCode returns "US" for an absent or empty input and
\* otherwise the trimmed, uppercased input truncated to exactly 2
\* characters, so the result is always exactly two characters.
C12_CountryCodeTwoChars ==
  last.route = "normCountryCode"
    => /\ Len(last.result.s) = 2
       /\ last.arg \in {JUndef, JNull, JStr(<<>>)}
            => last.result = JStr(<<"U", "S">>)
       /\ (last.arg.t = "string" /\ trim(last.arg.s) # <<>>)
            => \A i \in 1..2 : last.result.s[i] = UpperChar(trim(last.arg.s)[i])

----------------------------------------------------------------------------
(* Properties of the confidence field.                                     *)

\* absent or not a finite number: the fallback 0.2; else clamped to [0, 1]
\* (in hundredths)
ClampConfidence(v) ==
  IF v.t # "number" THEN 20
  ELSE IF v.n > 100 THEN 100
  ELSE IF v.n < 0 THEN 0
  ELSE v.n

ConfidenceRoutes == {"price-suggest", "cancel-contact", "cancel-assist"}

\* C13: the confidence field of every 200 response of /api/price-suggest,
\* /api/cancel-contact and /api/cancel-assist lies in [0, 1]; where the
\* response follows one completion, it is the model's confidence clamped
\* (above 1 gives 1, below 0 gives 0), or the fallback 0.2 when the model's
\* confidence is absent or cannot be coerced to a finite number, before the
\* caps 0.35 and 0.30 of the fallback paths of /api/cancel-contact.
C13_ConfidenceClamped ==
  (last.route \in ConfidenceRoutes /\ last.status = 200)
    => /\ last.body.confidence.t = "number"
       /\ last.body.confidence.n \in 0..100
       /\ ( /\ last.route \in {"price-suggest", "cancel-contact"}
            /\ last.calls > 0 /\ last.got /\ ~NoJsonIn(last.text) )
            => LET e == ClampConfidence(ToNullableNumber(
                          JsonObject(Extracted(last.text)).confidence))
               IN \/ last.body.confidence.n = e
                  \/ /\ last.route = "cancel-contact"
                     /\ last.body.confidence.n \in {Min(e, 35), Min(e, 30)}

----------------------------------------------------------------------------
(* Properties of the error responses.                                      *)

\* C14: every non-2xx response of every route is a JSON object with an
\* `error` field, and a 500 response carries nothing else: neither the
\* caught error's message nor its raw detail.
C14_ErrorsAreGeneric ==
  ("status" \in DOMAIN last /\ last.route # "none" /\ last.status \notin 200..299)
    => /\ "error" \in DOMAIN last.body
       /\ last.body.error.t = "string"
       /\ last.status = 500 => DOMAIN last.body = {"error"}

----------------------------------------------------------------------------
(* Properties of the liveness check, checked under SpecProbe.              *)

\* C15: when the HEAD probe is answered 403 or 405, the GET probe runs
\* within a fresh timeout bound of its own: no probe is aborted before it
\* has itself run for the whole bound, whatever time the HEAD probe took.
C15_FreshBoundForGet ==
  "probes" \in DOMAIN last
    => \A i \in 1..Len(last.probes) :
         last.probes[i].aborted => last.probes[i].took >= PROBE_TIMEOUT_MS

\* C16: one liveness check issues at most two network requests, in this
\* order: none when the candidate URL is empty or not a string; otherwise a
\* HEAD request first, and a single GET request only if the HEAD response
\* status is 403 or 405; the verdict is computed from the last response
\* received, and a thrown network error or abort yields ok=false as the
\* function's result.
C16_HeadThenGetOnce ==
  /\ (api.pc = "get")
       => /\ Len(api.tr.probes) = 1
          /\ api.tr.probes[1].method = "HEAD"
          /\ ~api.tr.probes[1].resp.threw
          /\ api.tr.probes[1].resp.status \in {403, 405}
  /\ (last.route = "validateCancelableURL")
       => LET n == Len(last.probes)
          IN /\ n <= 2
             /\ (last.arg.t # "string" \/ trim(last.arg.s) = <<>>)
                  => n = 0 /\ ~last.result.ok
             /\ (last.arg.t = "string" /\ trim(last.arg.s) # <<>>) => n >= 1
             /\ n >= 1 => last.probes[1].method = "HEAD"
             /\ n = 2 => /\ last.probes[2].method = "GET"
                         /\ ~last.probes[1].resp.threw
                         /\ last.probes[1].resp.status \in {403, 405}
             /\ n >= 1 =>
                  LET r == last.probes[n].resp
                  IN IF r.threw THEN ~last.result.ok
                     ELSE /\ last.result.ok <=> r.status \in 200..399
                          /\ last.result.status = r.status

\* C16 witness: a check whose HEAD request was answered 405 and whose GET
\* request threw has returned ok=false
C16_Witness ==
  /\ last.route = "validateCancelableURL"
  /\ Len(last.probes) = 2
  /\ last.probes[1].resp.status = 405
  /\ last.probes[2].resp.threw /\ ~last.probes[2].aborted
  /\ ~last.result.ok

----------------------------------------------------------------------------
(* Further properties of the price cache, checked under SpecPrice.         *)

\* C17: every cache write of /api/price-suggest stores an expiry equal to
\* the time of the write plus the 24h TTL, overwriting any entry already
\* present for the key with the payload it answers with, so that the entry
\* written at time t is live for every lookup in [t, t + 24h).
C17_ExpiryFromWriteTime ==
  [][ (AnsweredAfterCall /\ last'.status = 200)
        => LET k == CacheKey(last'.subscriptionName, last'.countryCode)
           IN /\ k \in DOMAIN priceCache'
              /\ priceCache'[k].value = last'.body
              /\ priceCache'[k].expiresAt = clock' + PRICE_CACHE_TTL_MS
    ]_vars

C19_HitLeavesCacheAlone ==
  [][ (AnsweredAtOnce /\ Get(last'.body, "cacheHit") = JBool(TRUE))
        => LET k == CacheKey(last'.subscriptionName, last'.countryCode)
           IN /\ last'.calls = 0
              /\ reqs' = reqs
              /\ DOMAIN priceCache' = DOMAIN priceCache
              /\ priceCache'[k].value = priceCache[k].value
              /\ priceCache'[k].value.cacheHit = JBool(FALSE)
              /\ priceCache'[k].expiresAt = priceCache[k].expiresAt
              /\ priceCache' = priceCache
    ]_vars

\* C19 witness: a hit was served half a TTL or more after the entry was
\* written, and the entry still has its first expiry and cacheHit=false
C19_Witness ==
  /\ last.route = "price-suggest" /\ last.status = 200 /\ last.calls = 0
  /\ LET k == CacheKey(last.subscriptionName, last.countryCode)
     IN /\ k \in DOMAIN priceCache
        /\ last.at > lastWrite[k].now
        /\ priceCache[k].expiresAt = lastWrite[k].now + PRICE_CACHE_TTL_MS
        /\ priceCache[k].value.cacheHit = JBool(FALSE)

----------------------------------------------------------------------------
(* Further properties of /v1/classifySubscription, checked under SpecApi.  *)

StringFields == {"subscription_name", "merchant_name", "currency",
                 "billing_period", "billing_email"}

\* C20: in every 200 response of /v1/classifySubscription,
\* subscription_name, merchant_name, currency, billing_period and
\* billing_email are each a string or null, price is a number or null,
\* is_subscription is a boolean and is_apple_subscription a boolean or
\* null, whatever JSON types the model returned for those keys.
C20_FieldsValidated ==
  (last.route = "classifySubscription" /\ last.status = 200)
    => /\ \A f \in StringFields : last.body[f].t \in {"string", "null"}
       /\ last.body.price.t \in {"number", "null"}
       /\ last.body.is_subscription.t = "boolean"
       /\ last.body.is_apple_subscription.t \in {"boolean", "null"}

----------------------------------------------------------------------------
(* Concurrent /api/price-suggest requests, checked under SpecPrice.        *)

\* C22: under any interleaving of concurrent /api/price-suggest requests, a
\* cache write never moves a key's expiry backwards: when a write replaces
\* the entry of a key, the new entry's expiresAt is greater than or equal
\* to the replaced entry's expiresAt.
C22_ExpiryNeverBackwards ==
  [][ \A k \in DOMAIN priceCache :
        (k \in DOMAIN priceCache' /\ priceCache'[k] # priceCache[k])
          => priceCache'[k].expiresAt >= priceCache[k].expiresAt
    ]_vars

\* C23: every /api/price-suggest 200 response, fresh or served from the
\* cache, echoes the caller's own inputs: its subscriptionName equals the
\* trimmed subscriptionName of that request and its countryCode equals the
\* normalized countryCode of that request, also when the cache entry was
\* created by an earlier request whose subscriptionName differed only in
\* letter case.
C23_EchoesOwnInputs ==
  (last.route = "price-suggest" /\ last.status = 200)
    => /\ Get(last.body, "subscriptionName") = JStr(last.subscriptionName)
       /\ Get(last.body, "countryCode") = JStr(last.countryCode)

----------------------------------------------------------------------------
(* Every request is answered once, checked under SpecFrame.                *)

\* the positions at which a handler awaits an external call (token
\* verification, completion, liveness probe): the call's return resumes it
AwaitPositions == {"verify", "classify", "contact", "head", "get", "draft",
                   "lookup", "assist-draft"}

\* C21: assuming every external call (token verification, completion,
\* liveness probe) eventually returns or fails, every request to every
\* route eventually receives exactly one HTTP response: no handler path
\* ends without responding and no path responds twice, also when several
\* requests are in flight for the same cache key.  Stated on the steps of
\* the handlers: a step either leaves its request at an external call,
\* unanswered so far, or ends the handler with the one response of that
\* request; a resumed /api/price-suggest request leaves the requests in
\* flight with it as they were.
C21_ExactlyOneResponse ==
  [][ /\ (api' # api)
           => \/ api'.pc \in AwaitPositions /\ last' = NoResponse
              \/ /\ api' = IdleApi
                 /\ last'.route = api.route
                 /\ last'.status \in 200..599
      /\ (api' = api /\ last' # last /\ last'.route # "price-suggest")
           => api = IdleApi /\ last'.status \in 200..599
      /\ (BagCardinality(reqs') > BagCardinality(reqs))
           => /\ \E r \in BagToSet(reqs') : SuspendsAtCall(r)
              /\ last' = last
      /\ (BagCardinality(reqs') < BagCardinality(reqs))
           => \E r \in BagToSet(reqs) :
                /\ reqs' = reqs (-) SetToBag({r})
                /\ last'.route = "price-suggest"
                /\ last'.status \in 200..599
                /\ last'.calls = 1
                /\ last'.subscriptionName = r.subscriptionName
                /\ last'.countryCode = r.countryCode
      /\ (reqs' = reqs /\ last' # last /\ last'.route = "price-suggest")
           => last'.calls = 0 /\ last'.status \in 200..599
    ]_vars

====
